---- MODULE Spec2Model ----
(***************************************************************************)
(* Model of kraken.futures.websocket.ConnectFuturesWebsocket: the          *)
(* reconnect loop (__run_forever / __reconnect), the receive loop (__run), *)
(* the replay task (__recover_subscription_req_msg), the send path         *)
(* (send_message / __check_challenge_ready), the challenge state and the   *)
(* subscription registry (__append/__remove/__build_subscription).         *)
(*                                                                         *)
(* Every asyncio task is a process with a program counter; one action is   *)
(* the code a task runs between two suspension points (await).             *)
(***************************************************************************)
EXTENDS Integers, Sequences, FiniteSets, TLC

\* ---------------------------------------------------------------- bounds
\* The inputs the environment gives the client in one behaviour: sockets that
\* open, inbound frames, receive timeouts, send_message calls and external
\* cancel() requests.
MaxInputs == 4

\* ------------------------------------------------------- program constants
MAX_RECONNECT_NUM == 2

\* Python's None for the two challenge strings and for the socket handle.
None == 0

\* The feed catalogs of the owning client (static lookup tables).
PublicFeeds == {"ticker"}
PrivateFeeds == {"fills"}

\* Who awaited a socket.send: the replay task, or the application's call s >= 1.
ReplayTask == 0

PID == "PI_XBTUSD"
ApiKey == "key"

VARIABLES
    main_pc,          \* __run_forever: "start" | "sleep" | "wait" | "done"
    run_pc,           \* __run task: "idle" | "connect" | "recv" | "ok" | "exc" | "cancelled"
    rec_pc,           \* replay task: "idle" | "wait_event" | "loop" | "wait_chal" | "ok" | "exc" | "cancelled"
    reconnect_num,    \* self.__reconnect_num
    last_challenge,   \* self.__last_challenge
    new_challenge,    \* self.__new_challenge
    challenge_ready,  \* self.__challenge_ready
    socket,           \* self.__socket: None or the id of the connection it refers to
    live,             \* the transport behind self.__socket is open
    conns,            \* number of sockets opened so far (ids 1..conns)
    event,            \* the asyncio.Event of the current attempt is set
    subscriptions,    \* self.__subscriptions
    exception_occur,  \* self.__client.exception_occur
    is_auth,          \* self.__client.is_auth
    log,              \* every argument self.__callback was awaited with, in order
    wire,             \* every socket.send, in order: [conn, src, private, msg, ready]
    cancel_req,       \* tasks with a pending cancel() request
    rec_list,         \* the list object the replay loop iterates
    rec_i,            \* index of the next entry the replay loop handles
    snd,              \* application send_message calls: [pc, msg, private]
    ninputs,          \* inputs of the environment so far
    regset,           \* the acknowledgements applied to a mathematical set
    issued,           \* <<connection, nonce>> of every challenge message received
    inbound,          \* every frame json.loads accepted, in arrival order: [conn, body]
    ntimeouts,        \* how many times wait_for(recv) has timed out
    nrejected,        \* how many frames json.loads has rejected
    nattempts         \* how many times websockets.connect has been called

vars == <<main_pc, run_pc, rec_pc, reconnect_num, last_challenge, new_challenge,
          challenge_ready, socket, live, conns, event, subscriptions,
          exception_occur, is_auth, log, wire, cancel_req, rec_list, rec_i, snd,
          ninputs, regset, issued, inbound, ntimeouts, nrejected, nattempts>>

Senders == 1..MaxInputs
Finished == {"ok", "exc", "cancelled"}
Range(s) == {s[i] : i \in DOMAIN s}

\* ------------------------------------------------------------- messages
CancelledNotice == [error |-> "asyncio.CancelledError"]
MaxReconnectNotice == [error |-> "kraken.exceptions.KrakenException.MaxReconnectError"]
TaskExceptionNotice == [error |-> "task got an exception"]

ChallengeRequest == [event |-> "challenge", api_key |-> ApiKey]

\* Inbound frames: text that json.loads rejects, or a JSON object.
NonJsonFrame == [json |-> FALSE]
JsonFrame(m) == [json |-> TRUE, body |-> m]

AckBodies ==
    {[event |-> e, feed |-> "ticker", product_ids |-> [list |-> <<PID>>]] : e \in {"subscribed", "unsubscribed"}}
    \cup {[event |-> "unsubscribed", feed |-> "ticker", product_ids |-> [str |-> PID]]}
    \cup {[event |-> "subscribed", feed |-> "ticker"]}
    \cup {[event |-> "subscribed", feed |-> "fills"]}
    \cup {[event |-> "subscribed", feed |-> "unknown_feed"]}
    \cup {[event |-> "subscribed"]}

Bodies(c) ==
    AckBodies
    \cup {[feed |-> "ticker", bid |-> 1]}
    \cup {[event |-> "challenge", message |-> c]}
    \cup {[event |-> "challenge"]}

\* The frames the server can send on connection c; its nonce is fresh per connection.
Frames(c) == {NonJsonFrame} \cup {JsonFrame(m) : m \in Bodies(c)}

\* The messages the application hands to send_message.
AppMessages ==
    {[msg |-> [event |-> "subscribe", feed |-> "ticker", product_ids |-> [list |-> <<PID>>]], private |-> FALSE],
     [msg |-> [event |-> "subscribe", feed |-> "fills"], private |-> TRUE]}

\* ----------------------------------------------------------- pure helpers
json_loads_raises(f) == ~f.json
json_loads(f) == f.body

\* FuturesWsClientCl._get_sign_challenge: base64(HMAC-SHA512(secret, SHA256(nonce))),
\* an injective function of the nonce whose values are neither nonces nor None.
get_sign_challenge(challenge) == 0 - challenge

\* isinstance(v, list) ? v : [v]
as_list(v) == IF "list" \in DOMAIN v THEN v ELSE [list |-> <<v.str>>]

build_subscription_raises(subscription) ==
    \/ "event" \notin DOMAIN subscription
    \/ subscription.event \notin {"subscribed", "unsubscribed"}
    \/ "feed" \notin DOMAIN subscription

build_subscription(subscription) ==
    IF subscription.feed \in PublicFeeds
    THEN IF "product_ids" \in DOMAIN subscription
         THEN [event |-> "subscribe",
               product_ids |-> as_list(subscription.product_ids),
               feed |-> subscription.feed]
         ELSE [event |-> "subscribe", feed |-> subscription.feed]
    ELSE IF subscription.feed \in PrivateFeeds
         THEN [event |-> "subscribe", feed |-> subscription.feed]
         ELSE [event |-> "subscribe"]

\* Mutant: the filter keeps the entries equal to sub instead of dropping them.
remove_subscription_inverted(subs, msg) ==
    SelectSeq(subs, LAMBDA x : x = build_subscription(msg))

remove_subscription(subs, msg) ==
    SelectSeq(subs, LAMBDA x : x # build_subscription(msg))

\* Mutant: the entry is appended without removing an equal one first.
append_subscription_no_remove(subs, msg) ==
    Append(subs, build_subscription(msg))

append_subscription(subs, msg) ==
    Append(remove_subscription(subs, msg), build_subscription(msg))

\* ------------------------------------------------------------- send path
\* msg["api_key"], msg["original_challenge"], msg["signed_challenge"] = ...
attach_challenge(msg) ==
    [api_key |-> ApiKey,
     original_challenge |-> last_challenge,
     signed_challenge |-> new_challenge] @@ msg

\* One socket.send on self.__socket; `ready` records self.__challenge_ready as
\* it is when the message goes out.
transmit(src, m, private) ==
    Append(wire, [conn |-> socket, src |-> src, private |-> private, msg |-> m,
                  ready |-> challenge_ready])

\* await self.__socket.send(json.dumps(msg)), line 214: the outcome and the wire.
final_send(src, msg, private) ==
    IF ~live
    THEN [st |-> "exc", wire |-> wire]
    ELSE [st |-> "ok",
          wire |-> transmit(src, IF private THEN attach_challenge(msg) ELSE msg, private)]

\* Mutant: a private message goes out without waiting for the challenge.
send_message_no_wait(src, msg, private) ==
    IF private /\ ~is_auth
    THEN [st |-> "exc", wire |-> wire]
    ELSE final_send(src, msg, private)

\* send_message from line 202 (the socket exists) to its first suspension or its end.
send_message(src, msg, private) ==
    IF private /\ ~is_auth
    THEN [st |-> "exc", wire |-> wire]
    ELSE IF private /\ ~challenge_ready
         THEN IF ~live
              THEN [st |-> "exc", wire |-> wire]
              ELSE [st |-> "wait_chal", wire |-> transmit(src, ChallengeRequest, FALSE)]
         ELSE final_send(src, msg, private)

\* ----------------------------------------------------------------- Init
Init ==
    /\ main_pc = "start"
    /\ run_pc = "idle"
    /\ rec_pc = "idle"
    /\ reconnect_num = 0
    /\ last_challenge = None
    /\ new_challenge = None
    /\ challenge_ready = FALSE
    /\ socket = None
    /\ live = FALSE
    /\ conns = 0
    /\ event = FALSE
    /\ subscriptions = <<>>
    /\ exception_occur = FALSE
    /\ is_auth \in BOOLEAN
    /\ log = <<>>
    /\ wire = <<>>
    /\ cancel_req = {}
    /\ rec_list = <<>>
    /\ rec_i = 1
    /\ snd = [s \in Senders |-> [pc |-> "idle"]]
    /\ ninputs = 0
    /\ regset = {}
    /\ issued = {}
    /\ inbound = <<>>
    /\ ntimeouts = 0
    /\ nrejected = 0
    /\ nattempts = 0

\* ------------------------------------------------- __run_forever / __reconnect
\* Mutant: the ceiling test is > instead of >=.
reconnect_entry_off_by_one(l) ==
    /\ reconnect_num' = reconnect_num + 1
    /\ IF reconnect_num + 1 > MAX_RECONNECT_NUM
       THEN /\ log' = Append(l, MaxReconnectNotice)
            /\ exception_occur' = TRUE
            /\ main_pc' = "done"
       ELSE /\ log' = l
            /\ exception_occur' = exception_occur
            /\ main_pc' = "sleep"

\* Lines 130-138 of __reconnect, entered from the `while True` of __run_forever
\* with the callback history l: the counter is incremented; at the ceiling
\* MaxReconnectError is raised, reported by __run_forever (lines 116-119) and the
\* finally clause sets the client's flag; otherwise the backoff sleep begins.
reconnect_entry(l) ==
    /\ reconnect_num' = reconnect_num + 1
    /\ IF reconnect_num + 1 >= MAX_RECONNECT_NUM
       THEN /\ log' = Append(l, MaxReconnectNotice)
            /\ exception_occur' = TRUE
            /\ main_pc' = "done"
       ELSE /\ log' = l
            /\ exception_occur' = exception_occur
            /\ main_pc' = "sleep"

\* The task scheduled by __init__ starts: first iteration of the run loop.
RunForeverStart ==
    /\ main_pc = "start"
    /\ reconnect_entry(log)
    /\ UNCHANGED <<run_pc, rec_pc, last_challenge, new_challenge, challenge_ready,
                   socket, live, conns, event, subscriptions, is_auth, wire,
                   cancel_req, rec_list, rec_i, snd, ninputs, regset, issued, inbound, ntimeouts, nrejected, nattempts>>

\* Mutant: __run also resets the registry when it starts.
StartTasks_clears_registry ==
    /\ main_pc = "sleep"
    /\ "main" \notin cancel_req
    /\ run_pc \in Finished \cup {"idle"}
    /\ rec_pc \in Finished \cup {"idle"}
    /\ main_pc' = "wait"
    /\ event' = FALSE
    /\ rec_pc' = "wait_event"
    /\ run_pc' = "connect"
    /\ nattempts' = nattempts + 1
    /\ new_challenge' = None
    /\ last_challenge' = None
    /\ rec_list' = <<>>
    /\ rec_i' = 1
    /\ subscriptions' = <<>>
    /\ UNCHANGED <<reconnect_num, challenge_ready, socket, live, conns,
                   exception_occur, is_auth, log, wire, cancel_req, snd, ninputs,
                   regset, issued, inbound, ntimeouts, nrejected>>

\* The backoff sleep ends (line 138): a new Event and the two tasks are created
\* (140-147); each task runs to its first await: the replay task to event.wait()
\* (176), __run to websockets.connect after resetting the two challenge strings
\* (70-74). The tasks of the previous attempt, cancelled before the sleep began,
\* have ended by now (a cancellation is delivered on the next loop iteration,
\* the sleep lasts at least a second).
StartTasks ==
    /\ main_pc = "sleep"
    /\ "main" \notin cancel_req
    /\ run_pc \in Finished \cup {"idle"}
    /\ rec_pc \in Finished \cup {"idle"}
    /\ main_pc' = "wait"
    /\ event' = FALSE
    /\ rec_pc' = "wait_event"
    /\ run_pc' = "connect"
    /\ nattempts' = nattempts + 1
    /\ new_challenge' = None
    /\ last_challenge' = None
    /\ rec_list' = <<>>
    /\ rec_i' = 1
    /\ UNCHANGED <<reconnect_num, challenge_ready, socket, live, conns, subscriptions,
                   exception_occur, is_auth, log, wire, cancel_req, snd, ninputs,
                   regset, issued, inbound, ntimeouts, nrejected>>

task_status(t) == IF t = "run" THEN run_pc ELSE rec_pc
finished_tasks == {t \in {"rec", "run"} : task_status(t) \in Finished}
pending_tasks == {"rec", "run"} \ finished_tasks

\* Mutant: a task's exception is reported without cancelling the pending tasks.
wait_process_one_no_cancel(acc, t) ==
    IF acc.raised THEN acc
    ELSE IF task_status(t) = "exc"
         THEN [log |-> Append(acc.log, TaskExceptionNotice),
               creq |-> acc.creq,
               exc |-> TRUE, raised |-> FALSE]
         ELSE IF task_status(t) = "cancelled"
              THEN [acc EXCEPT !.raised = TRUE]
              ELSE acc

\* Mutant: a task's exception is handled without telling the callback.
wait_process_one_silent(acc, t) ==
    IF acc.raised THEN acc
    ELSE IF task_status(t) = "exc"
         THEN [log |-> acc.log,
               creq |-> acc.creq \cup pending_tasks,
               exc |-> TRUE, raised |-> FALSE]
         ELSE IF task_status(t) = "cancelled"
              THEN [acc EXCEPT !.raised = TRUE]
              ELSE acc

\* One iteration of `for task in finished` (lines 154-167). acc.raised: the
\* loop was left by the CancelledError that task.exception() raises for a
\* cancelled task.
wait_process_one(acc, t) ==
    IF acc.raised THEN acc
    ELSE IF task_status(t) = "exc"
         THEN [log |-> Append(acc.log, TaskExceptionNotice),
               creq |-> acc.creq \cup pending_tasks,
               exc |-> TRUE, raised |-> FALSE]
         ELSE IF task_status(t) = "cancelled"
              THEN [acc EXCEPT !.raised = TRUE]
              ELSE acc

wait_process(order) ==
    LET init == [log |-> log, creq |-> cancel_req, exc |-> FALSE, raised |-> FALSE]
        one == wait_process_one(init, order[1])
    IN IF Len(order) = 1 THEN one ELSE wait_process_one(one, order[2])

\* The orders in which the set `finished` can be iterated.
finished_orders ==
    {o \in {<<"rec">>, <<"run">>, <<"rec", "run">>, <<"run", "rec">>} :
        Range(o) = finished_tasks}

\* asyncio.wait returns with both tasks done, neither with an exception nor
\* cancelled: exception_occur stays False (153-169), `tasks` is never emptied,
\* so the `while` of line 149 repeats, and nothing has changed.
WaitRepeat ==
    /\ main_pc = "wait"
    /\ "main" \notin cancel_req
    /\ run_pc = "ok"
    /\ rec_pc = "ok"
    /\ UNCHANGED vars

\* asyncio.wait(..., FIRST_EXCEPTION) returns (150-152): a task has raised, or
\* both are done and one of them was cancelled.
WaitReturn ==
    /\ main_pc = "wait"
    /\ "main" \notin cancel_req
    /\ \/ \E t \in finished_tasks : task_status(t) = "exc"
       \/ /\ pending_tasks = {}
          /\ \E t \in finished_tasks : task_status(t) = "cancelled"
    /\ \E order \in finished_orders :
        LET r == wait_process(order) IN
        /\ cancel_req' = r.creq
        /\ IF r.raised
           THEN \* CancelledError leaves __reconnect and __run_forever (124-125)
                /\ main_pc' = "done"
                /\ exception_occur' = TRUE
                /\ log' = r.log
                /\ reconnect_num' = reconnect_num
           ELSE \* break (168-169), __reconnect returns, next iteration
                reconnect_entry(r.log)
    /\ UNCHANGED <<run_pc, rec_pc, last_challenge, new_challenge, challenge_ready,
                   socket, live, conns, event, subscriptions, is_auth, wire,
                   rec_list, rec_i, snd, ninputs, regset, issued, inbound, ntimeouts, nrejected, nattempts>>

\* A cancel() of the __run_forever task is delivered at its await (138 or 150):
\* CancelledError leaves __reconnect; the finally clause sets the flag.
MainCancelled ==
    /\ main_pc \in {"sleep", "wait"}
    /\ "main" \in cancel_req
    /\ main_pc' = "done"
    /\ exception_occur' = TRUE
    /\ cancel_req' = cancel_req \ {"main"}
    /\ UNCHANGED <<run_pc, rec_pc, reconnect_num, last_challenge, new_challenge,
                   challenge_ready, socket, live, conns, event, subscriptions,
                   is_auth, log, wire, rec_list, rec_i, snd, ninputs,
                   regset, issued, inbound, ntimeouts, nrejected, nattempts>>

\* ----------------------------------------------------------------- __run
\* event.wait() returns (176) and the for statement takes the list (178): the
\* replay task's locals once the open event is set. An empty list ends the task.
recover_wake ==
    IF rec_pc = "wait_event" /\ "rec" \notin cancel_req
    THEN /\ rec_list' = subscriptions
         /\ rec_i' = 1
         /\ rec_pc' = IF subscriptions = <<>> THEN "ok" ELSE "loop"
    ELSE UNCHANGED <<rec_list, rec_i, rec_pc>>

\* Mutant: a successful open sets the reconnect counter to one.
RunOpenOk_resets_to_one ==
    /\ run_pc = "connect"
    /\ "run" \notin cancel_req
    /\ ninputs < MaxInputs
    /\ ninputs' = ninputs + 1
    /\ conns' = conns + 1
    /\ socket' = conns + 1
    /\ live' = TRUE
    /\ event' = TRUE
    /\ reconnect_num' = 1
    /\ run_pc' = "recv"
    /\ recover_wake
    /\ UNCHANGED <<main_pc, last_challenge, new_challenge, challenge_ready,
                   subscriptions, exception_occur, is_auth, log, wire, cancel_req,
                   snd, regset, issued, inbound, ntimeouts, nrejected, nattempts>>

\* Mutant: a successful open does not reset the reconnect counter.
RunOpenOk_no_reset ==
    /\ run_pc = "connect"
    /\ "run" \notin cancel_req
    /\ ninputs < MaxInputs
    /\ ninputs' = ninputs + 1
    /\ conns' = conns + 1
    /\ socket' = conns + 1
    /\ live' = TRUE
    /\ event' = TRUE
    /\ run_pc' = "recv"
    /\ recover_wake
    /\ UNCHANGED <<main_pc, reconnect_num, last_challenge, new_challenge, challenge_ready,
                   subscriptions, exception_occur, is_auth, log, wire, cancel_req,
                   snd, regset, issued, inbound, ntimeouts, nrejected, nattempts>>

\* websockets.connect succeeds (74-82): the handle is stored, the open event is
\* set, the counter is reset and the receive loop begins. event.set() puts the
\* waiting replay task at the head of the loop's ready queue, so it resumes
\* before any frame of the new connection is handled.
RunOpenOk ==
    /\ run_pc = "connect"
    /\ "run" \notin cancel_req
    /\ ninputs < MaxInputs
    /\ ninputs' = ninputs + 1
    /\ conns' = conns + 1
    /\ socket' = conns + 1
    /\ live' = TRUE
    /\ event' = TRUE
    /\ reconnect_num' = 0
    /\ run_pc' = "recv"
    /\ recover_wake
    /\ UNCHANGED <<main_pc, last_challenge, new_challenge, challenge_ready,
                   subscriptions, exception_occur, is_auth, log, wire, cancel_req,
                   snd, regset, issued, inbound, ntimeouts, nrejected, nattempts>>

\* websockets.connect raises (74): the task ends with the exception.
RunOpenFail ==
    /\ run_pc = "connect"
    /\ "run" \notin cancel_req
    /\ run_pc' = "exc"
    /\ UNCHANGED <<main_pc, rec_pc, reconnect_num, last_challenge, new_challenge,
                   challenge_ready, socket, live, conns, event, subscriptions,
                   exception_occur, is_auth, log, wire, cancel_req, rec_list, rec_i,
                   snd, ninputs, regset, issued, inbound, ntimeouts, nrejected, nattempts>>

\* The peer or the network closes the transport of the open connection.
TransportDrop ==
    /\ run_pc = "recv"
    /\ live
    /\ live' = FALSE
    /\ UNCHANGED <<main_pc, run_pc, rec_pc, reconnect_num, last_challenge,
                   new_challenge, challenge_ready, socket, conns, event,
                   subscriptions, exception_occur, is_auth, log, wire, cancel_req,
                   rec_list, rec_i, snd, ninputs, regset, issued, inbound, ntimeouts, nrejected, nattempts>>

\* Mutant: TimeoutError is not caught and ends the task.
RunRecvTimeout_not_caught ==
    /\ run_pc = "recv"
    /\ "run" \notin cancel_req
    /\ live
    /\ ninputs < MaxInputs
    /\ ninputs' = ninputs + 1
    /\ ntimeouts' = ntimeouts + 1
    /\ run_pc' = "exc"
    /\ live' = FALSE
    /\ UNCHANGED <<main_pc, rec_pc, reconnect_num, last_challenge,
                   new_challenge, challenge_ready, socket, conns, event,
                   subscriptions, exception_occur, is_auth, log, wire, cancel_req,
                   rec_list, rec_i, snd, regset, issued, inbound, nrejected, nattempts>>

\* wait_for(recv) times out (87-88): `pass`, and the loop waits again.
RunRecvTimeout ==
    /\ run_pc = "recv"
    /\ "run" \notin cancel_req
    /\ live
    /\ ninputs < MaxInputs
    /\ ninputs' = ninputs + 1
    /\ ntimeouts' = ntimeouts + 1
    /\ UNCHANGED <<main_pc, run_pc, rec_pc, reconnect_num, last_challenge,
                   new_challenge, challenge_ready, socket, live, conns, event,
                   subscriptions, exception_occur, is_auth, log, wire, cancel_req,
                   rec_list, rec_i, snd, regset, issued, inbound, nrejected, nattempts>>

\* recv() raises ConnectionClosed (86): not caught, the task ends with it.
RunRecvClosed ==
    /\ run_pc = "recv"
    /\ "run" \notin cancel_req
    /\ ~live
    /\ run_pc' = "exc"
    /\ UNCHANGED <<main_pc, rec_pc, reconnect_num, last_challenge, new_challenge,
                   challenge_ready, socket, live, conns, event, subscriptions,
                   exception_occur, is_auth, log, wire, cancel_req, rec_list, rec_i,
                   snd, ninputs, regset, issued, inbound, ntimeouts, nrejected, nattempts>>

\* __handle_new_challenge (216-219)
handle_new_challenge(msg) ==
    /\ last_challenge' = msg.message
    /\ new_challenge' = get_sign_challenge(msg.message)
    /\ challenge_ready' = TRUE

\* Mutant: an acknowledgement updates the registry and is not forwarded.
run_dispatch_keeps_ack(msg) ==
    LET ev == IF "event" \in DOMAIN msg THEN msg.event ELSE "" IN
    /\ IF ev = "challenge" /\ "message" \in DOMAIN msg
       THEN /\ handle_new_challenge(msg)
            /\ issued' = issued \cup {<<socket, msg.message>>}
            /\ log' = log
       ELSE /\ log' = IF ev \in {"subscribed", "unsubscribed"} THEN log ELSE Append(log, msg)
            /\ UNCHANGED <<last_challenge, new_challenge, challenge_ready, issued>>
    /\ subscriptions' =
          IF ev = "subscribed" THEN append_subscription(subscriptions, msg)
          ELSE IF ev = "unsubscribed" THEN remove_subscription(subscriptions, msg)
          ELSE subscriptions
    /\ regset' =
          IF ev = "subscribed" THEN regset \cup {build_subscription(msg)}
          ELSE IF ev = "unsubscribed" THEN regset \ {build_subscription(msg)}
          ELSE regset

\* Lines 99-110 for a parsed message that raises nothing.
run_dispatch(msg) ==
    LET ev == IF "event" \in DOMAIN msg THEN msg.event ELSE "" IN
    /\ IF ev = "challenge" /\ "message" \in DOMAIN msg
       THEN /\ handle_new_challenge(msg)
            /\ issued' = issued \cup {<<socket, msg.message>>}
            /\ log' = log
       ELSE /\ log' = Append(log, msg)
            /\ UNCHANGED <<last_challenge, new_challenge, challenge_ready, issued>>
    /\ subscriptions' =
          IF ev = "subscribed" THEN append_subscription(subscriptions, msg)
          ELSE IF ev = "unsubscribed" THEN remove_subscription(subscriptions, msg)
          ELSE subscriptions
    /\ regset' =
          IF ev = "subscribed" THEN regset \cup {build_subscription(msg)}
          ELSE IF ev = "unsubscribed" THEN regset \ {build_subscription(msg)}
          ELSE regset

\* Mutant: the ValueError of json.loads is not caught and ends the task.
RunRecv_reject_raises(f) ==
    /\ run_pc = "recv"
    /\ "run" \notin cancel_req
    /\ live
    /\ ninputs < MaxInputs
    /\ ninputs' = ninputs + 1
    /\ inbound' = IF json_loads_raises(f) THEN inbound
                  ELSE Append(inbound, [conn |-> socket, body |-> json_loads(f)])
    /\ nrejected' = IF json_loads_raises(f) THEN nrejected + 1 ELSE nrejected
    /\ IF json_loads_raises(f)
       THEN /\ run_pc' = "exc"
            /\ live' = FALSE
            /\ UNCHANGED <<last_challenge, new_challenge, challenge_ready,
                           subscriptions, log, regset, issued>>
       ELSE LET msg == json_loads(f) IN
            IF /\ "event" \in DOMAIN msg
               /\ msg.event \in {"subscribed", "unsubscribed"}
               /\ build_subscription_raises(msg)
            THEN \* ValueError leaves __run; the `async with` closes the socket
                 /\ run_pc' = "exc"
                 /\ live' = FALSE
                 /\ UNCHANGED <<last_challenge, new_challenge, challenge_ready,
                                subscriptions, log, regset, issued>>
            ELSE /\ run_dispatch(msg)
                 /\ UNCHANGED <<run_pc, live>>
    /\ UNCHANGED <<main_pc, rec_pc, reconnect_num, socket, conns, event,
                   exception_occur, is_auth, wire, cancel_req, rec_list, rec_i, snd,
                   ntimeouts, nattempts>>

\* One frame arrives and is handled (86, 93-110).
RunRecv(f) ==
    /\ run_pc = "recv"
    /\ "run" \notin cancel_req
    /\ live
    /\ ninputs < MaxInputs
    /\ ninputs' = ninputs + 1
    /\ inbound' = IF json_loads_raises(f) THEN inbound
                  ELSE Append(inbound, [conn |-> socket, body |-> json_loads(f)])
    /\ nrejected' = IF json_loads_raises(f) THEN nrejected + 1 ELSE nrejected
    /\ IF json_loads_raises(f)
       THEN \* logging.warning(_msg): the frame is dropped
            UNCHANGED <<run_pc, live, last_challenge, new_challenge, challenge_ready,
                        subscriptions, log, regset, issued>>
       ELSE LET msg == json_loads(f) IN
            IF /\ "event" \in DOMAIN msg
               /\ msg.event \in {"subscribed", "unsubscribed"}
               /\ build_subscription_raises(msg)
            THEN \* ValueError leaves __run; the `async with` closes the socket
                 /\ run_pc' = "exc"
                 /\ live' = FALSE
                 /\ UNCHANGED <<last_challenge, new_challenge, challenge_ready,
                                subscriptions, log, regset, issued>>
            ELSE /\ run_dispatch(msg)
                 /\ UNCHANGED <<run_pc, live>>
    /\ UNCHANGED <<main_pc, rec_pc, reconnect_num, socket, conns, event,
                   exception_occur, is_auth, wire, cancel_req, rec_list, rec_i, snd,
                   ntimeouts, nattempts>>

\* A cancel() of the __run task is delivered at its await. Inside wait_for(recv)
\* it is caught (89-92): the notice is delivered, the loop ends, the `async with`
\* closes the socket and the task returns normally. Inside websockets.connect
\* nothing catches it and the task ends cancelled.
RunCancelled ==
    /\ "run" \in cancel_req
    /\ run_pc \in {"connect", "recv"}
    /\ cancel_req' = cancel_req \ {"run"}
    /\ IF run_pc = "recv"
       THEN /\ log' = Append(log, CancelledNotice)
            /\ live' = FALSE
            /\ run_pc' = "ok"
       ELSE /\ run_pc' = "cancelled"
            /\ UNCHANGED <<log, live>>
    /\ UNCHANGED <<main_pc, rec_pc, reconnect_num, last_challenge, new_challenge,
                   challenge_ready, socket, conns, event, subscriptions,
                   exception_occur, is_auth, wire, rec_list, rec_i, snd, ninputs, regset, issued, inbound, ntimeouts, nrejected, nattempts>>

\* ------------------------------------------- __recover_subscription_req_msg
is_private_feed(sub) == sub.feed \in PrivateFeeds

\* The replay loop after the entry rec_list[rec_i] was handled with outcome r.
recover_advance(r) ==
    /\ wire' = r.wire
    /\ IF r.st = "ok"
       THEN /\ rec_i' = rec_i + 1
            /\ rec_pc' = IF rec_i >= Len(rec_list) THEN "ok" ELSE "loop"
       ELSE /\ rec_i' = rec_i
            /\ rec_pc' = r.st

\* Mutant: the loop iterates the registry as it is now (acknowledgements edit
\* the iterated list in place) instead of the list object it started on.
RecoverSend_live_registry ==
    /\ rec_pc = "loop"
    /\ "rec" \notin cancel_req
    /\ IF rec_i > Len(subscriptions)
       THEN /\ rec_pc' = "ok"
            /\ UNCHANGED <<wire, rec_i>>
       ELSE LET sub == subscriptions[rec_i] IN
            IF "feed" \notin DOMAIN sub
            THEN recover_advance([st |-> "exc", wire |-> wire])
            ELSE recover_advance(send_message(ReplayTask, sub, is_private_feed(sub)))
    /\ UNCHANGED <<main_pc, run_pc, reconnect_num, last_challenge, new_challenge,
                   challenge_ready, socket, live, conns, event, subscriptions,
                   exception_occur, is_auth, log, cancel_req, rec_list, snd, ninputs,
                   regset, issued, inbound, ntimeouts, nrejected, nattempts>>

\* One iteration of the loop (178-183): sub["feed"] raises KeyError for an entry
\* without a feed; otherwise the entry goes to send_message.
RecoverSend ==
    /\ rec_pc = "loop"
    /\ "rec" \notin cancel_req
    /\ LET sub == rec_list[rec_i] IN
       IF "feed" \notin DOMAIN sub
       THEN recover_advance([st |-> "exc", wire |-> wire])
       ELSE recover_advance(send_message(ReplayTask, sub, is_private_feed(sub)))
    /\ UNCHANGED <<main_pc, run_pc, reconnect_num, last_challenge, new_challenge,
                   challenge_ready, socket, live, conns, event, subscriptions,
                   exception_occur, is_auth, log, cancel_req, rec_list, snd, ninputs, regset, issued, inbound, ntimeouts, nrejected, nattempts>>

\* The polling loop of __check_challenge_ready ends (227-228); 210-214 follow.
RecoverChallengeReady ==
    /\ rec_pc = "wait_chal"
    /\ "rec" \notin cancel_req
    /\ challenge_ready
    /\ recover_advance(final_send(ReplayTask, rec_list[rec_i], TRUE))
    /\ UNCHANGED <<main_pc, run_pc, reconnect_num, last_challenge, new_challenge,
                   challenge_ready, socket, live, conns, event, subscriptions,
                   exception_occur, is_auth, log, cancel_req, rec_list, snd, ninputs, regset, issued, inbound, ntimeouts, nrejected, nattempts>>

\* A cancel() of the replay task is delivered at its await: nothing catches it.
RecoverCancelled ==
    /\ "rec" \in cancel_req
    /\ rec_pc \in {"wait_event", "loop", "wait_chal"}
    /\ cancel_req' = cancel_req \ {"rec"}
    /\ rec_pc' = "cancelled"
    /\ UNCHANGED <<main_pc, run_pc, reconnect_num, last_challenge, new_challenge,
                   challenge_ready, socket, live, conns, event, subscriptions,
                   exception_occur, is_auth, log, wire, rec_list, rec_i, snd, ninputs, regset, issued, inbound, ntimeouts, nrejected, nattempts>>

\* ------------------------------------------------ application: send_message
\* The outcome r of the send path for the call s.
sender_advance(s, r) ==
    /\ wire' = r.wire
    /\ snd' = [snd EXCEPT ![s].pc = r.st]

\* Mutant: the call also records the subscription in the registry.
SendCall_registers(s, m) ==
    /\ snd[s].pc = "idle"
    /\ \A q \in Senders : q < s => snd[q].pc # "idle"
    /\ ninputs < MaxInputs
    /\ ninputs' = ninputs + 1
    /\ subscriptions' = Append(SelectSeq(subscriptions, LAMBDA x : x # m.msg), m.msg)
    /\ IF socket = None
       THEN /\ snd' = [snd EXCEPT ![s] = [pc |-> "wait_socket", msg |-> m.msg, private |-> m.private]]
            /\ wire' = wire
       ELSE LET r == send_message(s, m.msg, m.private) IN
            /\ wire' = r.wire
            /\ snd' = [snd EXCEPT ![s] = [pc |-> r.st, msg |-> m.msg, private |-> m.private]]
    /\ UNCHANGED <<main_pc, run_pc, rec_pc, reconnect_num, last_challenge,
                   new_challenge, challenge_ready, socket, live, conns, event,
                   exception_occur, is_auth, log, cancel_req,
                   rec_list, rec_i, regset, issued, inbound, ntimeouts, nrejected, nattempts>>

\* The application awaits send_message(msg, private): with no socket yet the
\* call polls (199-200), otherwise it runs on from line 202.
SendCall(s, m) ==
    /\ snd[s].pc = "idle"
    /\ \A q \in Senders : q < s => snd[q].pc # "idle"   \* calls are numbered in order
    /\ ninputs < MaxInputs
    /\ ninputs' = ninputs + 1
    /\ IF socket = None
       THEN /\ snd' = [snd EXCEPT ![s] = [pc |-> "wait_socket", msg |-> m.msg, private |-> m.private]]
            /\ wire' = wire
       ELSE LET r == send_message(s, m.msg, m.private) IN
            /\ wire' = r.wire
            /\ snd' = [snd EXCEPT ![s] = [pc |-> r.st, msg |-> m.msg, private |-> m.private]]
    /\ UNCHANGED <<main_pc, run_pc, rec_pc, reconnect_num, last_challenge,
                   new_challenge, challenge_ready, socket, live, conns, event,
                   subscriptions, exception_occur, is_auth, log, cancel_req,
                   rec_list, rec_i, regset, issued, inbound, ntimeouts, nrejected, nattempts>>

\* The poll of line 199 finds a socket.
SendSocketReady(s) ==
    /\ snd[s].pc = "wait_socket"
    /\ socket # None
    /\ sender_advance(s, send_message(s, snd[s].msg, snd[s].private))
    /\ UNCHANGED <<main_pc, run_pc, rec_pc, reconnect_num, last_challenge,
                   new_challenge, challenge_ready, socket, live, conns, event,
                   subscriptions, exception_occur, is_auth, log, cancel_req,
                   rec_list, rec_i, ninputs, regset, issued, inbound, ntimeouts, nrejected, nattempts>>

\* The poll of line 227 finds the challenge ready; 210-214 follow.
SendChallengeReady(s) ==
    /\ snd[s].pc = "wait_chal"
    /\ challenge_ready
    /\ sender_advance(s, final_send(s, snd[s].msg, TRUE))
    /\ UNCHANGED <<main_pc, run_pc, rec_pc, reconnect_num, last_challenge,
                   new_challenge, challenge_ready, socket, live, conns, event,
                   subscriptions, exception_occur, is_auth, log, cancel_req,
                   rec_list, rec_i, ninputs, regset, issued, inbound, ntimeouts, nrejected, nattempts>>

\* ------------------------------------------------------------ environment
running(t) ==
    IF t = "main" THEN main_pc \in {"sleep", "wait"}
    ELSE IF t = "run" THEN run_pc \in {"connect", "recv"}
    ELSE rec_pc \in {"wait_event", "loop", "wait_chal"}

\* Something outside the class calls cancel() on one of its tasks.
Cancel(t) ==
    /\ ninputs < MaxInputs
    /\ running(t)
    /\ t \notin cancel_req
    /\ cancel_req' = cancel_req \cup {t}
    /\ ninputs' = ninputs + 1
    /\ UNCHANGED <<main_pc, run_pc, rec_pc, reconnect_num, last_challenge,
                   new_challenge, challenge_ready, socket, live, conns, event,
                   subscriptions, exception_occur, is_auth, log, wire, rec_list,
                   rec_i, snd, regset, issued, inbound, ntimeouts, nrejected, nattempts>>

Next ==
    \/ RunForeverStart
    \/ StartTasks
    \/ WaitReturn
    \/ WaitRepeat
    \/ MainCancelled
    \/ RunOpenOk
    \/ RunOpenFail
    \/ TransportDrop
    \/ RunRecvTimeout
    \/ RunRecvClosed
    \/ \E f \in Frames(socket) : RunRecv(f)
    \/ RunCancelled
    \/ RecoverSend
    \/ RecoverChallengeReady
    \/ RecoverCancelled
    \/ \E s \in Senders, m \in AppMessages : SendCall(s, m)
    \/ \E s \in Senders : SendSocketReady(s)
    \/ \E s \in Senders : SendChallengeReady(s)
    \/ \E t \in {"main", "run", "rec"} : Cancel(t)

Spec == Init /\ [][Next]_vars

\* What the event loop guarantees: a task that can run is run. A sleep ends, an
\* asyncio.wait whose condition is met returns, a poll that finds its condition
\* goes on, a pending cancellation is delivered, websockets.connect ends one
\* way or the other, recv on a closed transport raises. Nothing is assumed of
\* the peer, the network or the application (frames, opens that succeed, drops,
\* send_message calls, external cancel()).
Scheduling ==
    /\ WF_vars(RunForeverStart)
    /\ WF_vars(StartTasks)
    /\ WF_vars(WaitReturn)
    /\ WF_vars(MainCancelled)
    /\ WF_vars(RunOpenOk \/ RunOpenFail)
    /\ WF_vars(RunRecvClosed)
    /\ WF_vars(RunCancelled)
    /\ WF_vars(RecoverSend)
    /\ WF_vars(RecoverChallengeReady)
    /\ WF_vars(RecoverCancelled)
    /\ \A s \in Senders : WF_vars(SendSocketReady(s))
    /\ \A s \in Senders : WF_vars(SendChallengeReady(s))

FairSpec == Init /\ [][Next]_vars /\ Scheduling

\* =================================================================== claims
PrivateSent == {i \in DOMAIN wire : wire[i].private}
IsAck(m, e) == "event" \in DOMAIN m /\ m.event = e /\ ~build_subscription_raises(m)
NoticeCount(n) == Cardinality({i \in DOMAIN log : log[i] = n})

\* C1: every private message on the wire carries an original_challenge that was
\* received in a challenge message on the connection it is sent on, and
\* signed_challenge = sign(original_challenge).
C1_PrivateCarriesConnectionChallenge ==
    \A i \in PrivateSent :
        /\ <<wire[i].conn, wire[i].msg.original_challenge>> \in issued
        /\ wire[i].msg.signed_challenge = get_sign_challenge(wire[i].msg.original_challenge)

\* C2: no private message goes out while the challenge-ready flag is false; a
\* private call that found the flag false has sent the challenge request, and
\* nothing else, as long as it waits.
C2_NoPrivateSendBeforeReady ==
    /\ \A i \in PrivateSent : wire[i].ready
    /\ \A s \in Senders : snd[s].pc = "wait_chal" =>
          /\ \E i \in DOMAIN wire : wire[i].src = s /\ wire[i].msg = ChallengeRequest
          /\ \A i \in DOMAIN wire : wire[i].src = s => wire[i].msg = ChallengeRequest

C2_Witness ==
    \E s \in Senders :
        /\ snd[s].pc = "ok"
        /\ snd[s].private
        /\ \E i, j \in DOMAIN wire :
              /\ i < j
              /\ wire[i].src = s /\ wire[i].msg = ChallengeRequest /\ ~wire[i].ready
              /\ wire[j].src = s /\ wire[j].private

\* C3: the registry never holds two equal entries, and when the latest
\* acknowledgement processed is a 'subscribed' for s, s is its last element.
LastAckIndex ==
    LET acks == {i \in DOMAIN log : IsAck(log[i], "subscribed") \/ IsAck(log[i], "unsubscribed")}
    IN IF acks = {} THEN 0 ELSE CHOOSE i \in acks : \A j \in acks : j <= i

C3_NoDuplicatesAddIsLast ==
    /\ \A i, j \in DOMAIN subscriptions : i # j => subscriptions[i] # subscriptions[j]
    /\ (LastAckIndex # 0 /\ IsAck(log[LastAckIndex], "subscribed")) =>
          /\ subscriptions # <<>>
          /\ subscriptions[Len(subscriptions)] = build_subscription(log[LastAckIndex])

\* After a reconnect the same 'subscribed' acknowledgement was processed a second
\* time, and the registry holds its entry once.
C3_Witness ==
    /\ conns >= 2
    /\ \E i, j \in DOMAIN log :
          /\ i < j /\ j = LastAckIndex
          /\ IsAck(log[i], "subscribed") /\ log[j] = log[i]
    /\ Len(subscriptions) = 1

\* C4: the set of registry entries is the set obtained by applying the
\* acknowledgements, in order, to the empty set.
C4_RegistryIsReplayedSet ==
    Range(subscriptions) = regset

\* (ticker, [PI_XBTUSD]) was added and the matching 'unsubscribed' emptied the registry.
C4_Witness ==
    /\ subscriptions = <<>>
    /\ \E i, j \in DOMAIN log :
          /\ i < j
          /\ log[i] = [event |-> "subscribed", feed |-> "ticker", product_ids |-> [list |-> <<PID>>]]
          /\ log[j] = [event |-> "unsubscribed", feed |-> "ticker", product_ids |-> [list |-> <<PID>>]]

\* C5: the registry changes only in a step that processes a 'subscribed' or an
\* 'unsubscribed' message (the step that also hands that message to the callback).
AckProcessed ==
    /\ Len(log') = Len(log) + 1
    /\ LET m == log'[Len(log')] IN IsAck(m, "subscribed") \/ IsAck(m, "unsubscribed")

C5_RegistryFrame ==
    [][subscriptions' # subscriptions => AckProcessed]_vars

\* An entry added on one connection is still there on the next one, after the
\* failure of the first and the reconnect.
C5_Witness ==
    /\ conns >= 2
    /\ run_pc = "recv"
    /\ subscriptions # <<>>
    /\ \E i, j \in DOMAIN log :
          i < j /\ IsAck(log[i], "subscribed") /\ log[j] = TaskExceptionNotice

strip_challenge(m) ==
    [k \in DOMAIN m \ {"api_key", "original_challenge", "signed_challenge"} |-> m[k]]

Acknowledged(e) ==
    \E i \in DOMAIN log : IsAck(log[i], "subscribed") /\ build_subscription(log[i]) = e

\* The subscribe messages the replay task has sent on connection c, in order.
ReplaySent(c) ==
    SelectSeq(wire, LAMBDA w : w.src = ReplayTask /\ w.conn = c /\ w.msg # ChallengeRequest)

ReplayIsPrefix ==
    /\ ~event => (rec_pc \in {"idle", "wait_event", "cancelled"} /\ rec_list = <<>>)
    /\ (event /\ rec_pc # "idle") =>
          LET sent == ReplaySent(socket) IN
          /\ Len(sent) = IF rec_pc \in {"wait_event", "cancelled"} /\ rec_list = <<>>
                         THEN 0 ELSE rec_i - 1
          /\ \A k \in 1..Len(sent) :
                /\ strip_challenge(sent[k].msg) = rec_list[k]
                /\ sent[k].private <=> rec_list[k].feed \in PrivateFeeds
                /\ ~sent[k].private <=> rec_list[k].feed \in PublicFeeds

\* C7: after an open, the replay task sends every entry of the registry exactly
\* once, in registry order, on the new socket and not before the open event,
\* private or public by the catalog of its feed. Stated for a replay that has
\* ended by itself, of an authenticated client, with the transport still open.
C7_ReplaySendsEveryEntry ==
    /\ ReplayIsPrefix
    /\ (is_auth /\ live /\ event /\ rec_pc \in {"ok", "exc"}) =>
          Len(ReplaySent(socket)) = Len(rec_list)

\* C8: at the ceiling the run loop stops: MaxReconnectError is reported once,
\* the client's flag is set and no socket open is attempted any more.
C8_MaxReconnectTerminal ==
    /\ NoticeCount(MaxReconnectNotice) <= 1
    /\ reconnect_num <= MAX_RECONNECT_NUM
    /\ (reconnect_num >= MAX_RECONNECT_NUM \/ NoticeCount(MaxReconnectNotice) = 1) =>
          /\ NoticeCount(MaxReconnectNotice) = 1
          /\ log[Len(log)] = MaxReconnectNotice
          /\ main_pc = "done"
          /\ exception_occur
          /\ run_pc \notin {"connect", "recv"}

\* A connection was open, failed, and the next open failed too.
C8_Witness ==
    /\ conns >= 1
    /\ reconnect_num = MAX_RECONNECT_NUM
    /\ NoticeCount(MaxReconnectNotice) = 1

IsError(m) == "error" \in DOMAIN m

\* C9 as stated, for transport failures alone (the only inputs so far are socket
\* opens): while the run loop is still retrying, the callback has received no
\* error notice other than that of a cancellation.
C9_NoNoticeWhileRetrying ==
    (main_pc \in {"start", "sleep", "wait"} /\ ninputs = conns) =>
        \A i \in DOMAIN log : IsError(log[i]) => log[i] = CancelledNotice

\* C9 (amended): when an attempt fails and the run loop goes on to the next
\* one, the callback is given one {error: <task> got an exception} notice for
\* each task of the attempt that ended with an exception, and nothing else.
C9_FailedAttemptIsReported ==
    [][(main_pc = "wait" /\ main_pc' = "sleep") =>
          LET n == Cardinality({t \in {"rec", "run"} : task_status(t) = "exc"}) IN
          /\ n >= 1
          /\ Len(log') = Len(log) + n
          /\ SubSeq(log', 1, Len(log)) = log
          /\ \A i \in Len(log) + 1 .. Len(log') : log'[i] = TaskExceptionNotice]_vars

\* An open connection dropped; the failure was reported and the backoff of the
\* next attempt has begun.
C9_Witness ==
    /\ main_pc = "sleep"
    /\ conns = 1
    /\ ninputs = 1
    /\ reconnect_num = 1
    /\ log = <<TaskExceptionNotice>>

\* C10 as stated: once the receive loop has reported a cancellation, no receive
\* loop runs and no socket open is attempted.
C10_CancellationIsTerminal ==
    CancelledNotice \in Range(log) => run_pc \notin {"connect", "recv"}

\* C11: once a cancellation from outside has ended the receive loop (the task
\* returned after reporting it) and the replay task has finished without an
\* exception, the run loop terminates: __reconnect returns or raises,
\* __run_forever ends and the client's flag is set.
C11_CancelledRunLoopTerminates ==
    (main_pc = "wait" /\ run_pc = "ok" /\ rec_pc \in {"ok", "cancelled"})
        ~> (main_pc = "done" /\ exception_occur)

\* C12: when the run loop has stopped for good and the client's flag is set,
\* the callback has been given an {error: ...} notice.
C12_TerminalStateIsReported ==
    (main_pc = "done" /\ exception_occur) => \E i \in DOMAIN log : IsError(log[i])

\* C13: a private send of a client without credentials fails at once in every
\* state: the call is never suspended and puts nothing on the wire.
C13_UnauthPrivateFailsImmediately ==
    \A s \in Senders :
        (snd[s].pc # "idle" /\ snd[s].private /\ ~is_auth) =>
            /\ snd[s].pc = "exc"
            /\ \A i \in DOMAIN wire : wire[i].src # s

\* C14: a private send of an authenticated client that is suspended waiting for
\* the challenge does not wait for ever: it ends, by transmitting or by an
\* error. Stated for the calls still suspended when the run loop has given up
\* (MaxReconnectError was reported), where every connection attempt the call
\* could have been waiting on is abandoned.
C14_SuspendedPrivateSendEnds ==
    \A s \in Senders :
        (is_auth /\ snd[s].pc = "wait_chal" /\ MaxReconnectNotice \in Range(log))
            ~> (snd[s].pc \in {"ok", "exc"})

IsChallenge(m) == "event" \in DOMAIN m /\ m.event = "challenge"

\* C15: no message whose event is 'challenge' is ever given to the callback.
C15_ChallengeNeverDelivered ==
    \A i \in DOMAIN log : ~IsChallenge(log[i])

\* The messages the callback was given by the receive loop, in order.
DataLog == SelectSeq(log, LAMBDA m : ~IsError(m))

\* The challenge messages __run consumes (line 102).
IsConsumed(m) == IsChallenge(m) /\ "message" \in DOMAIN m

\* The acknowledgements whose processing raises (lines 247-254).
ProcessingRaises(m) ==
    /\ "event" \in DOMAIN m
    /\ m.event \in {"subscribed", "unsubscribed"}
    /\ build_subscription_raises(m)

BodiesOf(q) == [i \in 1..Len(q) |-> q[i].body]

\* C16 as stated: the messages delivered are the parseable frames in arrival
\* order without the consumed challenge messages, none dropped.
C16_EveryPassThroughDelivered ==
    DataLog = BodiesOf(SelectSeq(inbound, LAMBDA x : ~IsConsumed(x.body)))

\* C16 (amended): the messages delivered are, unmodified and in arrival order,
\* the parseable frames that are neither a consumed challenge message nor an
\* acknowledgement whose processing raises; such an acknowledgement is not
\* delivered and is the last frame its connection handles. Connections follow
\* one another, so this is the statement for each connection.
C16_DeliveredUntilProcessingRaises ==
    /\ DataLog = BodiesOf(SelectSeq(inbound,
                     LAMBDA x : ~IsConsumed(x.body) /\ ~ProcessingRaises(x.body)))
    /\ \A i, j \in DOMAIN inbound :
          /\ i < j => inbound[i].conn <= inbound[j].conn
          /\ (i < j /\ ProcessingRaises(inbound[i].body)) => inbound[i].conn < inbound[j].conn

\* On the first connection an acknowledgement was delivered, then one without
\* a feed ended the receive loop; the second connection is open.
C16_Witness ==
    /\ socket = 2
    /\ run_pc = "recv"
    /\ \E i, j \in DOMAIN inbound :
          /\ i < j
          /\ IsAck(inbound[i].body, "subscribed")
          /\ ProcessingRaises(inbound[j].body)
          /\ DataLog = <<inbound[i].body>>

\* C17: a send_message call made while no connection is open (before the first
\* open, or after the receive loop of a failed connection has ended and before
\* the next open) is suspended and transmits nothing in that step; and whatever
\* is transmitted goes out on the connection that is open at that moment. (The
\* private call of a client without credentials is C13's case, left out here.)
C17_SendWithoutOpenSocketSuspends ==
    [][/\ \A s \in Senders :
            (/\ snd[s].pc = "idle"
             /\ snd'[s].pc # "idle"
             /\ run_pc # "recv"
             /\ ~(snd'[s].private /\ ~is_auth))
                => (snd'[s].pc = "wait_socket" /\ wire' = wire)
       /\ wire' # wire =>
            (live /\ run_pc = "recv" /\ wire'[Len(wire')].conn = conns)]_vars

\* C18: when a connection attempt starts (the receive task is opening its
\* socket) the challenge state is fresh: no raw challenge, no signed challenge,
\* ready false; and on an open connection ready is true only if a challenge
\* message has been received on that connection.
C18_ChallengeStateFreshPerAttempt ==
    /\ run_pc = "connect" =>
          (last_challenge = None /\ new_challenge = None /\ ~challenge_ready)
    /\ (run_pc = "recv" /\ challenge_ready) => \E p \in issued : p[1] = socket

\* C19 as stated: the counter is zero throughout the time a connection is open.
C19_ZeroWhileConnectionOpen ==
    (run_pc = "recv" /\ live) => reconnect_num = 0

\* A step in which __run_forever begins an iteration of its loop: __reconnect is
\* entered and either reaches its backoff sleep or raises MaxReconnectError.
IterationBegins ==
    /\ main_pc \in {"start", "wait"}
    /\ \/ main_pc' = "sleep"
       \/ /\ Len(log') > Len(log)
          /\ log'[Len(log')] = MaxReconnectNotice

OpenSucceeds == run_pc = "connect" /\ run_pc' = "recv"

\* C19 (amended): the counter changes in two ways only: each iteration of the
\* run loop adds exactly one, each successful open sets it to zero. So it counts
\* the iterations begun since the last successful open, and it is zero from a
\* successful open until the run loop begins its next iteration, which follows
\* the failure of a task of the attempt and can precede the end of the
\* cancelled receive loop.
C19_CounterCountsIterations ==
    [][/\ IterationBegins => reconnect_num' = reconnect_num + 1
       /\ OpenSucceeds => reconnect_num' = 0
       /\ reconnect_num' # reconnect_num => (IterationBegins \/ OpenSucceeds)
       /\ (run_pc' = "recv" /\ main_pc' = "wait") => reconnect_num' = 0]_vars

\* The second connection is open: the counter went 1, 0, 1 and is 0 again.
C19_Witness ==
    /\ conns = 2
    /\ run_pc = "recv"
    /\ main_pc = "wait"
    /\ reconnect_num = 0
    /\ TaskExceptionNotice \in Range(log)

\* The notices a step hands to the callback.
Emitted == IF Len(log') > Len(log) THEN Range(SubSeq(log', Len(log) + 1, Len(log'))) ELSE {}

EndedByCancellation == main_pc = "done" /\ MaxReconnectNotice \notin Range(log)

\* C21: when the receive loop of a connection that had opened ends with an
\* exception (the transport closed, or processing a frame raised), the run loop
\* goes on to a new connection attempt; only a cancellation from outside can
\* stop it before, the failure itself never does.
C21_FailureAfterOpenIsRetried ==
    (event /\ run_pc = "exc" /\ main_pc = "wait")
        ~> (run_pc = "connect" \/ EndedByCancellation)

\* A connection was open, its receive loop ended with an exception and the
\* next attempt is opening its socket.
C21_Witness ==
    /\ conns = 1
    /\ run_pc = "connect"
    /\ main_pc = "wait"
    /\ TaskExceptionNotice \in Range(log)
    /\ cancel_req = {}
    /\ rec_pc # "cancelled"

\* What a step of the receive loop leaves alone when it changes nothing: the
\* loop goes on on the same open socket, and the counter, the challenge state,
\* the registry, the callback history, the wire and every other task are as before.
ReceiveLoopGoesOnUnchanged ==
    /\ run_pc = "recv" /\ run_pc' = "recv"
    /\ live /\ live'
    /\ UNCHANGED <<main_pc, rec_pc, reconnect_num, last_challenge, new_challenge,
                   challenge_ready, socket, conns, event, subscriptions,
                   exception_occur, log, wire, cancel_req, rec_list, rec_i, snd,
                   regset, issued, inbound>>

\* C22: a receive timeout changes nothing: the socket stays open, the receive
\* loop continues, counter, challenge state and registry are unchanged and the
\* callback is given nothing.
C22_TimeoutChangesNothing ==
    [][ntimeouts' # ntimeouts => ReceiveLoopGoesOnUnchanged]_vars

\* The receive loop has timed out on a connection that has a challenge and a
\* registry entry, and it is still receiving.
C22_Witness ==
    /\ ntimeouts >= 1
    /\ run_pc = "recv"
    /\ live
    /\ challenge_ready
    /\ subscriptions # <<>>

\* C23: a frame that is not valid JSON is dropped: the callback is given nothing
\* for it, registry and challenge state are unchanged, the connection stays
\* open and the receive loop goes on.
C23_NonJsonFrameIsDropped ==
    [][nrejected' # nrejected => ReceiveLoopGoesOnUnchanged]_vars

\* An invalid frame was dropped on the connection that also delivered an
\* acknowledgement, and its receive loop is still receiving.
C23_Witness ==
    /\ nrejected >= 1
    /\ ninputs = 3
    /\ conns = 1
    /\ run_pc = "recv"
    /\ live
    /\ Len(DataLog) = 1
    /\ subscriptions # <<>>

ChallengeRequestsOn(c) ==
    Cardinality({i \in DOMAIN wire : wire[i].conn = c /\ wire[i].msg = ChallengeRequest})

ChallengeResponsesOn(c) ==
    Cardinality({i \in DOMAIN inbound : inbound[i].conn = c /\ IsConsumed(inbound[i].body)})

\* C24: on any one connection at most one challenge request is outstanding: the
\* requests sent never exceed the challenge messages processed by more than one.
C24_OneChallengeRequestOutstanding ==
    \A c \in 1..conns : ChallengeRequestsOn(c) <= ChallengeResponsesOn(c) + 1

\* C25: every entry of the registry has a feed, and the feed belongs to the
\* public or the private catalog.
C25_RegistryEntriesHaveCatalogFeed ==
    \A e \in Range(subscriptions) :
        "feed" \in DOMAIN e /\ e.feed \in PublicFeeds \cup PrivateFeeds

\* C26: the counter stays within 0..MAX_RECONNECT_NUM; a socket open is
\* attempted only while it is below the ceiling; when no open ever succeeded,
\* MaxReconnectError is reported after exactly MAX_RECONNECT_NUM - 1 attempts;
\* and the ceiling bounds only the attempts that fail in a row: every
\* successful open gives the next failure a fresh attempt, so MaxReconnectError
\* is reported only for an attempt whose open failed.
C26_CounterBoundsFailedOpens ==
    /\ reconnect_num \in 0..MAX_RECONNECT_NUM
    /\ run_pc = "connect" => reconnect_num < MAX_RECONNECT_NUM
    /\ nattempts >= conns
    /\ MaxReconnectNotice \in Range(log) =>
          /\ ~event
          /\ nattempts >= conns + MAX_RECONNECT_NUM - 1
          /\ conns = 0 => nattempts = MAX_RECONNECT_NUM - 1

\* Three connections opened and failed one after the other, more attempts than
\* the ceiling, and the next attempt is under way.
C26_Witness ==
    /\ conns = 3
    /\ nattempts = 4
    /\ nattempts > MAX_RECONNECT_NUM
    /\ run_pc = "connect"
    /\ reconnect_num = 1
    /\ MaxReconnectNotice \notin Range(log)

\* The registry that results from processing the frames q[1..n] in order.
RECURSIVE ApplyAcks(_, _)
ApplyAcks(q, n) ==
    IF n = 0 THEN <<>>
    ELSE LET r == ApplyAcks(q, n - 1)
             m == q[n].body
         IN IF IsAck(m, "subscribed") THEN append_subscription(r, m)
            ELSE IF IsAck(m, "unsubscribed") THEN remove_subscription(r, m)
            ELSE r

\* The registry as it was when connection c opened: the acknowledgements of the
\* earlier connections applied in order.
RegistryAtOpen(c) ==
    LET q == SelectSeq(inbound, LAMBDA x : x.conn < c) IN ApplyAcks(q, Len(q))

\* C27: what the replay task has sent on the new connection is, entry by entry
\* and in order, a prefix of the registry as it was when the connection opened,
\* whatever acknowledgements the receive loop has processed on that connection
\* since; and a replay that has run to its end has sent all of it. So no entry is
\* sent twice, none of the snapshot is skipped and none added later is sent.
C27_ReplaySendsSnapshot ==
    (event /\ rec_pc # "idle") =>
        LET snap == RegistryAtOpen(socket)
            sent == ReplaySent(socket)
        IN /\ Len(sent) <= Len(snap)
           /\ \A k \in 1..Len(sent) : strip_challenge(sent[k].msg) = snap[k]
           /\ rec_pc = "ok" => Len(sent) = Len(snap)

\* The replay on the second connection has sent its snapshot and ended, and
\* the registry has been changed by an acknowledgement of that connection.
C27_Witness ==
    /\ socket = 2
    /\ event
    /\ rec_pc = "ok"
    /\ Len(ReplaySent(2)) = 1
    /\ subscriptions # RegistryAtOpen(2)

====
